---- MODULE Spec2Model ----
(***************************************************************************)
(* A model of the audio2text transcription worker (src/transcriber.py):    *)
(* WhisperWorker.run with its two helper threads (the elapsed-time ticker  *)
(* of start_progress_timer and the watchdog_timer closure), the external   *)
(* engines (ffmpeg, ffprobe, faster-whisper) as nondeterministic inputs.   *)
(*                                                                         *)
(* Times are whole seconds.  estimated_transcription_time and              *)
(* max_wait_time are kept in tenths of a second, so that the speed         *)
(* multipliers 0.3 and 0.9 are the integers 3 and 9.                       *)
(***************************************************************************)
EXTENDS Integers, Sequences, FiniteSets, TLC

(***************************************************************************)
(* Program constants                                                       *)
(***************************************************************************)
\* chunk_duration = 60
ChunkLen == 60
\* if duration > 60: chunked processing
LongThreshold == 60
\* self.total_steps = len(self.steps)
TotalSteps == 6
\* "+ 15  # Add 15 seconds for overhead", in tenths of a second
OverheadTenths == 150
\* max(..., 1200), in tenths of a second
MinWaitTenths == 12000
\* the default of get_audio_duration when the probe and the size both fail
DefaultDuration == 60
\* speed_multiplier 0.3 (CUDA) and 0.9 (CPU), in tenths
CudaMultiplier == 3
CpuMultiplier == 9

(***************************************************************************)
(* Bounds of the model                                                     *)
(***************************************************************************)
\* short recordings last up to MaxMinutes minutes
MaxMinutes == 1
\* the long recording lasts LongMinutes minutes
LongMinutes == 16
\* segments the engine returns for one short recording, over all its calls
MaxSegs == 2
\* per-chunk failures in one job on a short recording
MaxFaults == 2
\* the engine may place a time up to Eps - 1 seconds past the chunk's edge
Eps == 2
\* size of the file in MB, for the fallback estimate
MaxFileSizeMB == 0
\* characters of a segment's text, where texts are enumerated
MaxTextLen == 2
\* workers started from the window in one session
MaxJobs == 2
\* the worker runs ahead of the window by at most MaxPending queued signals
MaxPending == 1

Max(a, b) == IF a >= b THEN a ELSE b
Min(a, b) == IF a <= b THEN a ELSE b

\* half a minute, a minute and a second, and the whole minutes up to MaxMinutes
ShortDurations == {30, ChunkLen + 1} \cup {ChunkLen * k : k \in 1..MaxMinutes}
LongDurations == {ChunkLen * LongMinutes, ChunkLen * LongMinutes + 40}
FileSizesMB == {MaxFileSizeMB}
Multipliers == {CudaMultiplier, CpuMultiplier}

\* times the engine reports, relative to the start of the artifact it was given
EngineTimes == {0, ChunkLen, ChunkLen + Eps - 1}
\* the characters of a text: a letter, the two kinds of whitespace, and the
\* two characters a JSON string escapes besides the control characters
Chars == {"n", "space", "newline", "quote", "backslash"}
\* what the engine hears: a word after a space
SpokenText == <<"space", "n">>
\* a segment lasts one second, cut at the last time the engine reports
RawSegments ==
    {[start |-> s, end |-> Min(s + 1, ChunkLen + Eps - 1), text |-> SpokenText] : s \in EngineTimes}

\* the engine returns a finite sequence of segments in non-decreasing start order
EngineResults(n) ==
    {<<>>}
    \cup (IF n >= 1 THEN {<<a>> : a \in RawSegments} ELSE {})
    \cup (IF n >= 2 THEN {p \in RawSegments \X RawSegments : p[2].start >= p[1].start}
                    ELSE {})

VARIABLES
    recDuration,        \* what ffprobe reports for the recording
    fileSizeMB,         \* os.path.getsize(file_path) / (1024 * 1024)
    segBudget,          \* input bound: segments the engine returns in this job
    faultBudget,        \* input bound: per-chunk failures in this job
    speed_multiplier,   \* self.speed_multiplier, in tenths
    file_path,          \* self.file_path
    pc,                 \* position of the worker in run()
    exc,                \* the exception propagating to the top-level handler
    current_step,       \* self.current_step
    duration,           \* the local variable duration of run()
    estimated_transcription_time,   \* in tenths of a second
    signals,            \* progress, step, status and terminal signals, in order
    keep_updating,      \* self.keep_updating
    transcription_timeout,  \* self.transcription_timeout
    max_wait_time,      \* the watchdog's local, in tenths of a second
    wd_pc,              \* position of the watchdog thread
    timer_pc,           \* position of the ticker thread
    past_deadline,      \* time.time() - start >= max_wait_time
    num_chunks,
    i,                  \* the loop variable of the chunk loop
    chunk_outcome,      \* per processed chunk: what happened to it
    temp_dir,           \* the TemporaryDirectory exists
    chunk_files,        \* chunk_<i>.wav files present in temp_dir
    extractions,        \* chunk indices ffmpeg was run for, in order
    engine_calls,       \* targets of model.transcribe, in order
    segments_list,
    structured_transcript,
    saved,              \* the two output files have been written
    txt_file,           \* the text file: {} while absent, else {its characters}
    json_file,          \* the JSON file: {} while absent, else {its content}
    loaded,             \* ui.load_transcription: {} or {segments handed to the display}
    log_duration,       \* format_time(duration) of the "Audio duration" log line
    paths_used,         \* <<stage, path>> for every use of self.file_path after the format check
    probe_log,          \* the calls of get_audio_duration: outcome and value returned
    engine_returns,     \* the results of the engine calls that returned, with their targets
    stage_log,          \* the stages of run() entered so far, in order
    transcribe_button,  \* ui: self.transcribe_button.isEnabled()
    open_button,        \* ui: self.open_button.isEnabled()
    selected_file,      \* ui: self.selected_file
    progress_bar,       \* ui: self.progress_bar.value()
    jobs,               \* ui: workers created by start_transcription so far
    orphans,            \* ui: workers replaced in self.worker before their terminal signal
    retries,            \* ui: workers started after handle_error ran for the one before
    ui_seen             \* ui: signals of self.worker whose slot has run

env == <<recDuration, fileSizeMB, segBudget, faultBudget, speed_multiplier>>
timers == <<keep_updating, transcription_timeout, max_wait_time, wd_pc, timer_pc, past_deadline>>
chunks == <<num_chunks, i, chunk_outcome, temp_dir, chunk_files, extractions>>
files == <<txt_file, json_file, loaded>>
records == <<log_duration, paths_used, probe_log, engine_returns, stage_log>>
ui == <<transcribe_button, open_button, selected_file, progress_bar, jobs, orphans, retries,
        ui_seen>>
vars == <<env, file_path, pc, exc, current_step, duration, estimated_transcription_time,
          signals, timers, chunks, engine_calls, segments_list, structured_transcript, saved,
          files, records, ui>>

(***************************************************************************)
(* Pure functions of the worker                                            *)
(***************************************************************************)

\* int((step_index / self.total_steps) * 100)
StepProgress(step_index) == (step_index * 100) \div TotalSteps

\* the step notification carrying the index of the step, not its number
update_stepZeroBased(sigs, step_index) ==
    IF step_index < TotalSteps
    THEN LET s1 == Append(sigs, <<"step", step_index, TotalSteps>>)
         IN  IF step_index < 3 THEN Append(s1, <<"progress", StepProgress(step_index)>>) ELSE s1
    ELSE sigs

\* update_step: the signals it emits
update_step(sigs, step_index) ==
    IF step_index < TotalSteps
    THEN LET s1 == Append(sigs, <<"step", step_index + 1, TotalSteps>>)
         IN  IF step_index < 3 THEN Append(s1, <<"progress", StepProgress(step_index)>>) ELSE s1
    ELSE sigs

\* int((percentage / 100) * 50) in double arithmetic: 0.58 * 50 is
\* 28.999999999999996, every other percentage of 0..100 gives floor(p / 2)
HalfOfPercentage(percentage) == IF percentage = 58 THEN 28 ELSE percentage \div 2

OverallProgress(percentage) == 30 + HalfOfPercentage(percentage)

update_transcription_progress(sigs, percentage) ==
    Append(sigs, <<"progress", OverallProgress(percentage)>>)

\* int(((i+1) / num_chunks) * 100); the double result is the exact floor for
\* every num_chunks below 50
ChunkProgress(k, n) == ((k + 1) * 100) \div n

\* the chunk count without the extra chunk for the remainder
NumChunksNoRemainder(d) == d \div ChunkLen

\* int(duration / chunk_duration) + 1
NumChunks(d) == (d \div ChunkLen) + 1

\* (duration * self.speed_multiplier) + 15, in tenths
EstimatedTime(d, m) == d * m + OverheadTenths

\* the timeout without its floor of 20 minutes
MaxWaitTimeNoFloor(est) == est * 3

\* max(self.estimated_transcription_time * 3, 1200), in tenths
MaxWaitTime(est) == Max(est * 3, MinWaitTenths)

\* the estimator without its last resort: the size estimate whatever happens
get_audio_durationNoDefault(outcome) ==
    CASE outcome = "ok" -> recDuration
      [] OTHER -> fileSizeMB * 60

\* get_audio_duration, by the outcome of the probe and of the size fallback
ProbeOutcomes == {"ok", "probe_failed", "size_failed"}
get_audio_duration(outcome) ==
    CASE outcome = "ok" -> recDuration
      [] outcome = "probe_failed" -> fileSizeMB * 60
      [] OTHER -> DefaultDuration

\* the adjustment applied to segment.start only
ShiftSegmentStartOnly(seg, k, start_chunk_time) ==
    [start |-> seg.start + start_chunk_time, end |-> seg.end, text |-> seg.text,
     chunk |-> k, rstart |-> seg.start, rend |-> seg.end]

\* the timestamp adjustment of the chunk loop
ShiftSegment(seg, k, start_chunk_time) ==
    [start |-> seg.start + start_chunk_time, end |-> seg.end + start_chunk_time,
     text |-> seg.text, chunk |-> k, rstart |-> seg.start, rend |-> seg.end]

ShiftAll(r, k, start_chunk_time) ==
    [j \in 1..Len(r) |-> ShiftSegment(r[j], k, start_chunk_time)]

\* whole-file mode: list(segments), nothing adjusted
KeepSegment(seg) ==
    [start |-> seg.start, end |-> seg.end, text |-> seg.text,
     chunk |-> -1, rstart |-> seg.start, rend |-> seg.end]

(***************************************************************************)
(* Text: a string is a sequence of characters, each a one-element name     *)
(***************************************************************************)
DigitChars == <<"0", "1", "2", "3", "4", "5", "6", "7", "8", "9">>
Digit(d) == DigitChars[d + 1]
DigitValue(c) == CHOOSE d \in 0..9 : Digit(d) = c

RECURSIVE Decimal(_)
\* the decimal digits of a natural number, as {n:d} writes them
Decimal(n) == IF n < 10 THEN <<Digit(n)>> ELSE Decimal(n \div 10) \o <<Digit(n % 10)>>

\* {n:02d}: at least two digits, zero-padded
Pad2(n) == IF n < 10 THEN <<"0">> \o Decimal(n) ELSE Decimal(n)

RECURSIVE ParseNat(_)
\* int() of a string of digits
ParseNat(s) == IF s = <<>> THEN 0 ELSE ParseNat(SubSeq(s, 1, Len(s) - 1)) * 10 + DigitValue(s[Len(s)])

Whitespace == {"space", "newline"}
RECURSIVE StripLeft(_)
StripLeft(s) == IF s # <<>> /\ Head(s) \in Whitespace THEN StripLeft(Tail(s)) ELSE s
RECURSIVE StripRight(_)
StripRight(s) ==
    IF s # <<>> /\ s[Len(s)] \in Whitespace THEN StripRight(SubSeq(s, 1, Len(s) - 1)) ELSE s
\* str.strip()
strip(s) == StripRight(StripLeft(s))

RECURSIVE Join(_, _)
\* sep.join(parts)
Join(parts, sep) ==
    IF parts = <<>> THEN <<>>
    ELSE IF Len(parts) = 1 THEN parts[1]
    ELSE parts[1] \o sep \o Join(Tail(parts), sep)

\* the hour-aware format used for the segment stamp as well
TimestampStrHourAware(start_time) ==
    IF start_time < 3600
    THEN <<"(">> \o Pad2(start_time \div 60) \o <<":">> \o Pad2(start_time % 60) \o <<")">>
    ELSE <<"(">> \o Pad2(start_time \div 3600) \o <<":">> \o Pad2((start_time % 3600) \div 60)
               \o <<":">> \o Pad2(start_time % 60) \o <<")">>

\* f"({int(start_time//60):02d}:{int(start_time%60):02d})"
TimestampStr(start_time) ==
    <<"(">> \o Pad2(start_time \div 60) \o <<":">> \o Pad2(start_time % 60) \o <<")">>

\* format_time: MM:SS below an hour, HH:MM:SS from 3600 seconds on
format_time(seconds) ==
    IF seconds < 3600
    THEN Pad2(seconds \div 60) \o <<":">> \o Pad2(seconds % 60)
    ELSE Pad2(seconds \div 3600) \o <<":">> \o Pad2((seconds % 3600) \div 60)
             \o <<":">> \o Pad2((seconds % 3600) % 60)

\* the assembler leaving out the segments without text
process_transcriptionSkipsEmpty(segments) ==
    LET HasText(seg) == strip(seg.text) # <<>>
        kept == SelectSeq(segments, HasText)
    IN  [j \in 1..Len(kept) |->
            [start |-> kept[j].start, end |-> kept[j].end, text |-> strip(kept[j].text),
             timestamp_str |-> TimestampStr(kept[j].start)]]

process_transcription(segments) ==
    [j \in 1..Len(segments) |->
        [start |-> segments[j].start, end |-> segments[j].end,
         text |-> strip(segments[j].text),
         timestamp_str |-> TimestampStr(segments[j].start)]]

\* the lines of the text file: seg["timestamp_str"] + " " + seg["text"]
TxtLines(transcript) ==
    [j \in 1..Len(transcript) |->
        transcript[j].timestamp_str \o <<"space">> \o transcript[j].text]

\* "\n".join([...]) as written to txt_file
TxtContent(transcript) == Join(TxtLines(transcript), <<"newline">>)

(***************************************************************************)
(* The JSON file: json.dump writes a float by repr and a string between    *)
(* quotes with the quote, the backslash and the control characters         *)
(* escaped (ensure_ascii=False leaves every other character as it is);     *)
(* json.load reads them back.  The layout of the object and of the list    *)
(* is kept as structure.                                                   *)
(***************************************************************************)
\* repr of a float with a whole value: 61.0
FloatRepr(x) == Decimal(x) \o <<".", "0">>

\* float() of the number token
ParseFloat(s) ==
    LET dot == CHOOSE k \in 1..Len(s) : s[k] = "." /\ \A j \in 1..(k - 1) : s[j] # "."
    IN  ParseNat(SubSeq(s, 1, dot - 1))

\* an encoder that escapes the quote only
EscapeCharQuoteOnly(c) == IF c = "quote" THEN <<"backslash", "quote">> ELSE <<c>>

EscapeChar(c) ==
    CASE c = "quote" -> <<"backslash", "quote">>
      [] c = "backslash" -> <<"backslash", "backslash">>
      [] c = "newline" -> <<"backslash", "n">>
      [] OTHER -> <<c>>

RECURSIVE EscapeAll(_)
EscapeAll(s) == IF s = <<>> THEN <<>> ELSE EscapeChar(Head(s)) \o EscapeAll(Tail(s))

JsonString(s) == <<"quote">> \o EscapeAll(s) \o <<"quote">>

RECURSIVE Unescape(_)
\* the decoder: a backslash takes the next character with it
Unescape(s) ==
    IF s = <<>> THEN <<>>
    ELSE IF Head(s) = "backslash" /\ Len(s) >= 2
         THEN <<(CASE s[2] = "n" -> "newline" [] OTHER -> s[2])>> \o Unescape(SubSeq(s, 3, Len(s)))
         ELSE <<Head(s)>> \o Unescape(Tail(s))

\* the string token read back: the text between the quotes, unescaped
ParseJsonString(s) == Unescape(SubSeq(s, 2, Len(s) - 1))

\* json.dump({"segments": structured_transcript}, f, indent=4, ensure_ascii=False)
json_dump(transcript) ==
    [segments |->
        [j \in 1..Len(transcript) |->
            [start |-> FloatRepr(transcript[j].start),
             end |-> FloatRepr(transcript[j].end),
             text |-> JsonString(transcript[j].text),
             timestamp_str |-> JsonString(transcript[j].timestamp_str)]]]

\* json.load(f)
json_load(content) ==
    [segments |->
        [j \in 1..Len(content.segments) |->
            [start |-> ParseFloat(content.segments[j].start),
             end |-> ParseFloat(content.segments[j].end),
             text |-> ParseJsonString(content.segments[j].text),
             timestamp_str |-> ParseJsonString(content.segments[j].timestamp_str)]]]

\* transcript_data.get("segments", [])
GetSegments(transcript_data) ==
    IF "segments" \in DOMAIN transcript_data THEN transcript_data.segments ELSE <<>>

(***************************************************************************)
(* Initial state: a worker constructed for one recording                   *)
(***************************************************************************)
\* the window when start_transcription has just started the worker
UiAfterStart ==
    /\ transcribe_button = FALSE
    /\ open_button = FALSE
    /\ selected_file = file_path
    /\ progress_bar = 0
    /\ jobs = 1
    /\ orphans = 0
    /\ retries = 0
    /\ ui_seen = 0

InitJob ==
    /\ fileSizeMB \in FileSizesMB
    /\ speed_multiplier \in Multipliers
    /\ file_path \in {"a.m4a", "b.wav"}
    /\ UiAfterStart
    /\ pc = "check_format"
    /\ exc = "none"
    /\ current_step = 0
    /\ duration = 0
    /\ estimated_transcription_time = 0
    /\ signals = <<>>
    /\ keep_updating = FALSE
    /\ transcription_timeout = FALSE
    /\ max_wait_time = 0
    /\ wd_pc = "idle"
    /\ timer_pc = "idle"
    /\ past_deadline = FALSE
    /\ num_chunks = 0
    /\ i = 0
    /\ chunk_outcome = <<>>
    /\ temp_dir = FALSE
    /\ chunk_files = {}
    /\ extractions = <<>>
    /\ engine_calls = <<>>
    /\ segments_list = <<>>
    /\ structured_transcript = <<>>
    /\ saved = FALSE
    /\ txt_file = {}
    /\ json_file = {}
    /\ loaded = {}
    /\ log_duration = <<>>
    /\ paths_used = {}
    /\ probe_log = <<>>
    /\ engine_returns = <<>>
    /\ stage_log = <<>>

\* short recordings, the engine returning up to MaxSegs segments
Init ==
    /\ InitJob
    /\ recDuration \in ShortDurations
    /\ segBudget = MaxSegs
    /\ faultBudget = MaxFaults

\* recordings of every length without speech: the engine returns no segment,
\* and at most one chunk fails
InitLong ==
    /\ InitJob
    /\ recDuration \in ShortDurations \cup LongDurations
    /\ segBudget = 0
    /\ faultBudget = 1

(***************************************************************************)
(* What the chunk loop has done so far                                     *)
(***************************************************************************)
RECURSIVE SumN(_)
\* segments the engine has for the chunks of co, lost ones included
SumN(co) == IF co = <<>> THEN 0 ELSE co[1].n + SumN(Tail(co))

IsFault(o) == o.res # "ok"
IsOk(o) == o.res = "ok"
Faults(co) == Len(SelectSeq(co, IsFault))
OkChunks(co) == SelectSeq(co, IsOk)

\* what the engine may still return in this job
Budget == segBudget - SumN(chunk_outcome)

(***************************************************************************)
(* WhisperWorker.run, one action per stage                                 *)
(***************************************************************************)
\* an exception swallowed: the job ends without a notification
RaiseSilently(kind) ==
    /\ exc' = kind
    /\ pc' = "done"

\* raise inside the outer try, outside the inner one
Raise(kind) ==
    /\ exc' = kind
    /\ pc' = "handler"

\* STEP 1: update_step(0)
CheckFormat ==
    /\ pc = "check_format"
    /\ current_step' = 0
    /\ signals' = update_step(signals, 0)
    /\ pc' = IF file_path = "a.m4a" THEN "convert" ELSE "analyze"
    /\ UNCHANGED <<ui, files, records, env, file_path, exc, duration,
                   estimated_transcription_time, timers, chunks, engine_calls, segments_list,
                   structured_transcript, saved>>

\* the converted path not stored: convert_m4a_to_wav(self.file_path) as a statement
ConvertOkKeepsPath ==
    /\ pc = "convert"
    /\ current_step' = 0
    /\ signals' = update_step(signals, 0)
    /\ pc' = "analyze"
    /\ stage_log' = Append(stage_log, "normalize")
    /\ UNCHANGED <<ui, files, log_duration, paths_used, probe_log, engine_returns, env,
                   file_path, exc, duration, estimated_transcription_time, timers, chunks,
                   engine_calls, segments_list, structured_transcript, saved>>

\* update_step(0, "Converting M4A to WAV..."); convert_m4a_to_wav
ConvertOk ==
    /\ pc = "convert"
    /\ current_step' = 0
    /\ signals' = update_step(signals, 0)
    /\ file_path' = "a.wav"
    /\ pc' = "analyze"
    /\ stage_log' = Append(stage_log, "normalize")
    /\ UNCHANGED <<ui, files, log_duration, paths_used, probe_log, engine_returns, env, exc,
                   duration, estimated_transcription_time, timers, chunks, engine_calls,
                   segments_list, structured_transcript, saved>>

ConvertFail ==
    /\ pc = "convert"
    /\ current_step' = 0
    /\ signals' = update_step(signals, 0)
    /\ Raise("conversion")
    /\ stage_log' = Append(stage_log, "normalize")
    /\ UNCHANGED <<ui, files, log_duration, paths_used, probe_log, engine_returns, env,
                   file_path, duration, estimated_transcription_time, timers, chunks,
                   engine_calls, segments_list, structured_transcript, saved>>

\* duration = self.get_audio_duration(...); self.estimated_transcription_time = ...
AnalyzeDuration ==
    /\ pc = "analyze"
    /\ \E o \in ProbeOutcomes :
        LET d == get_audio_duration(o) IN
        /\ duration' = d
        /\ estimated_transcription_time' = EstimatedTime(d, speed_multiplier)
        /\ log_duration' = format_time(d)
        /\ probe_log' = Append(probe_log, [outcome |-> o, value |-> d])
    /\ paths_used' = paths_used \cup {<<"probe", file_path>>}
    /\ pc' = "load_model"
    /\ stage_log' = Append(stage_log, "estimate")
    /\ UNCHANGED <<ui, files, engine_returns, env, file_path, exc, current_step, signals,
                   timers, chunks, engine_calls, segments_list, structured_transcript, saved>>

\* STEP 2: update_step(1); WhisperModel("medium", ...)
LoadModelOk ==
    /\ pc = "load_model"
    /\ current_step' = 1
    /\ signals' = update_step(signals, 1)
    /\ pc' = "prepare"
    /\ UNCHANGED <<ui, files, records, env, file_path, exc, duration,
                   estimated_transcription_time, timers, chunks, engine_calls, segments_list,
                   structured_transcript, saved>>

LoadModelFail ==
    /\ pc = "load_model"
    /\ current_step' = 1
    /\ signals' = update_step(signals, 1)
    /\ Raise("model_load")
    /\ UNCHANGED <<ui, files, records, env, file_path, duration, estimated_transcription_time,
                   timers, chunks, engine_calls, segments_list, structured_transcript, saved>>

\* STEP 3 and entry of STEP 4: update_step(2); update_step(3); the ticker and
\* the watchdog are started.  The watchdog computes max_wait_time first, from
\* a field nothing writes afterwards.
StartTranscription ==
    /\ pc = "prepare"
    /\ current_step' = 3
    /\ signals' = update_step(update_step(signals, 2), 3)
    /\ keep_updating' = TRUE
    /\ timer_pc' = "run"
    /\ transcription_timeout' = FALSE
    /\ max_wait_time' = MaxWaitTime(estimated_transcription_time)
    /\ wd_pc' = "loop"
    /\ pc' = "load_small_model"
    /\ UNCHANGED <<ui, files, records, env, file_path, exc, duration,
                   estimated_transcription_time, past_deadline, chunks, engine_calls,
                   segments_list, structured_transcript, saved>>

\* model = WhisperModel(self.model_size, ...) inside the inner try
LoadSmallModelOk ==
    /\ pc = "load_small_model"
    /\ pc' = "choose_mode"
    /\ UNCHANGED <<ui, files, records, env, file_path, exc, current_step, duration,
                   estimated_transcription_time, signals, timers, chunks, engine_calls,
                   segments_list, structured_transcript, saved>>

\* an exception inside the inner try: logged, re-raised through the finally
RaiseInner(kind) ==
    /\ exc' = kind
    /\ pc' = "finally"

LoadSmallModelFail ==
    /\ pc = "load_small_model"
    /\ RaiseInner("small_model_load")
    /\ UNCHANGED <<ui, files, records, env, file_path, current_step, duration,
                   estimated_transcription_time, signals, timers, chunks, engine_calls,
                   segments_list, structured_transcript, saved>>

\* the mode decision with >= in place of >
ChooseModeFromThreshold ==
    /\ pc = "choose_mode"
    /\ \E o \in ProbeOutcomes :
        LET d == get_audio_duration(o) IN
        /\ duration' = d
        /\ probe_log' = Append(probe_log, [outcome |-> o, value |-> d])
        /\ IF d >= LongThreshold
           THEN /\ temp_dir' = TRUE
                /\ num_chunks' = NumChunks(d)
                /\ pc' = "chunk_head"
           ELSE /\ UNCHANGED <<temp_dir, num_chunks>>
                /\ pc' = "whole_file"
    /\ i' = 0
    /\ paths_used' = paths_used \cup {<<"probe", file_path>>}
    /\ segments_list' = <<>>
    /\ stage_log' = Append(stage_log, "estimate")
    /\ UNCHANGED <<ui, files, log_duration, engine_returns, env, file_path, exc, current_step,
                   estimated_transcription_time, signals, timers, chunk_outcome, chunk_files,
                   extractions, engine_calls, structured_transcript, saved>>

\* duration = self.get_audio_duration(self.file_path); if duration > 60: ...
\* In chunk mode the TemporaryDirectory is created and num_chunks computed.
ChooseMode ==
    /\ pc = "choose_mode"
    /\ \E o \in ProbeOutcomes :
        LET d == get_audio_duration(o) IN
        /\ duration' = d
        /\ probe_log' = Append(probe_log, [outcome |-> o, value |-> d])
        /\ IF d > LongThreshold
           THEN /\ temp_dir' = TRUE
                /\ num_chunks' = NumChunks(d)
                /\ pc' = "chunk_head"
           ELSE /\ UNCHANGED <<temp_dir, num_chunks>>
                /\ pc' = "whole_file"
    /\ i' = 0
    /\ paths_used' = paths_used \cup {<<"probe", file_path>>}
    /\ segments_list' = <<>>
    /\ stage_log' = Append(stage_log, "estimate")
    /\ UNCHANGED <<ui, files, log_duration, engine_returns, env, file_path, exc, current_step,
                   estimated_transcription_time, signals, timers, chunk_outcome, chunk_files,
                   extractions, engine_calls, structured_transcript, saved>>

\* a loop that also ends when the watchdog has fired
ChunkBeginStopsOnTimeout ==
    /\ pc = "chunk_head"
    /\ IF i >= num_chunks \/ i * ChunkLen >= duration \/ transcription_timeout
       THEN /\ pc' = "chunk_exit"
            /\ UNCHANGED signals
       ELSE /\ signals' = update_transcription_progress(signals, ChunkProgress(i, num_chunks))
            /\ pc' = "extract"
    /\ UNCHANGED <<ui, files, records, env, file_path, exc, current_step, duration,
                   estimated_transcription_time, timers, chunks, engine_calls, segments_list,
                   structured_transcript, saved>>

\* a loop without "if start_chunk_time >= duration: break"
ChunkBeginNoBreak ==
    /\ pc = "chunk_head"
    /\ IF i >= num_chunks
       THEN /\ pc' = "chunk_exit"
            /\ UNCHANGED signals
       ELSE /\ signals' = update_transcription_progress(signals, ChunkProgress(i, num_chunks))
            /\ pc' = "extract"
    /\ UNCHANGED <<ui, files, records, env, file_path, exc, current_step, duration,
                   estimated_transcription_time, timers, chunks, engine_calls, segments_list,
                   structured_transcript, saved>>

\* for i in range(num_chunks): ... if start_chunk_time >= duration: break;
\* otherwise the progress of this chunk is emitted
ChunkBegin ==
    /\ pc = "chunk_head"
    /\ IF i >= num_chunks \/ i * ChunkLen >= duration
       THEN /\ pc' = "chunk_exit"
            /\ UNCHANGED signals
       ELSE /\ signals' = update_transcription_progress(signals, ChunkProgress(i, num_chunks))
            /\ pc' = "extract"
    /\ UNCHANGED <<ui, files, records, env, file_path, exc, current_step, duration,
                   estimated_transcription_time, timers, chunks, engine_calls, segments_list,
                   structured_transcript, saved>>

\* a chunk's exception leaving the loop for the handlers of run()
ChunkFailedPropagates(kind, n) ==
    /\ chunk_outcome' = Append(chunk_outcome, [res |-> kind, n |-> n])
    /\ i' = i
    /\ exc' = kind
    /\ pc' = "chunk_exit"

\* a chunk's exception ending the loop, the job going on
ChunkFailedBreaks(kind, n) ==
    /\ chunk_outcome' = Append(chunk_outcome, [res |-> kind, n |-> n])
    /\ i' = i + 1
    /\ UNCHANGED exc
    /\ pc' = "chunk_exit"

\* the per-chunk except clause: log, go on with the next chunk
ChunkFailed(kind, n) ==
    /\ chunk_outcome' = Append(chunk_outcome, [res |-> kind, n |-> n])
    /\ i' = i + 1
    /\ UNCHANGED exc
    /\ pc' = "chunk_head"

\* every chunk written to one file name, each extraction replacing the last
ExtractOkSingleFile ==
    /\ pc = "extract"
    /\ extractions' = Append(extractions, i)
    /\ paths_used' = paths_used \cup {<<"extract", file_path>>}
    /\ chunk_files' = {i}
    /\ pc' = "transcribe_chunk"
    /\ stage_log' = Append(stage_log, "extract")
    /\ UNCHANGED <<ui, files, log_duration, probe_log, engine_returns, env, file_path, exc,
                   current_step, duration, estimated_transcription_time, signals, timers,
                   num_chunks, i, chunk_outcome, temp_dir, engine_calls, segments_list,
                   structured_transcript, saved>>

\* subprocess.run(ffmpeg ... chunk_file, check=True)
ExtractOk ==
    /\ pc = "extract"
    /\ extractions' = Append(extractions, i)
    /\ paths_used' = paths_used \cup {<<"extract", file_path>>}
    /\ chunk_files' = chunk_files \cup {i}
    /\ pc' = "transcribe_chunk"
    /\ stage_log' = Append(stage_log, "extract")
    /\ UNCHANGED <<ui, files, log_duration, probe_log, engine_returns, env, file_path, exc,
                   current_step, duration, estimated_transcription_time, signals, timers,
                   num_chunks, i, chunk_outcome, temp_dir, engine_calls, segments_list,
                   structured_transcript, saved>>

\* ffmpeg run without check=True: its failure goes unnoticed and the engine
\* is called on a file that was not written
ExtractFailUnchecked ==
    /\ pc = "extract"
    /\ Faults(chunk_outcome) < faultBudget
    /\ extractions' = Append(extractions, i)
    /\ paths_used' = paths_used \cup {<<"extract", file_path>>}
    /\ pc' = "transcribe_chunk"
    /\ stage_log' = Append(stage_log, "extract")
    /\ UNCHANGED <<ui, files, log_duration, probe_log, engine_returns, env, file_path, exc,
                   current_step, duration, estimated_transcription_time, signals, timers,
                   num_chunks, i, chunk_outcome, temp_dir, chunk_files, engine_calls,
                   segments_list, structured_transcript, saved>>

\* ffmpeg exits non-zero; r is what the engine has for this chunk
ExtractFail ==
    /\ pc = "extract"
    /\ Faults(chunk_outcome) < faultBudget
    /\ extractions' = Append(extractions, i)
    /\ paths_used' = paths_used \cup {<<"extract", file_path>>}
    /\ \E r \in EngineResults(Budget) : ChunkFailed("extract_failed", Len(r))
    /\ stage_log' = Append(stage_log, "extract")
    /\ UNCHANGED <<ui, files, log_duration, probe_log, engine_returns, env, file_path,
                   current_step, duration, estimated_transcription_time, signals, timers,
                   num_chunks, temp_dir, chunk_files, engine_calls, segments_list,
                   structured_transcript, saved>>

\* the chunk's segments put in front of the accumulated ones
TranscribeChunkOkPrepends ==
    /\ pc = "transcribe_chunk"
    /\ engine_calls' = Append(engine_calls, i)
    /\ \E r \in EngineResults(Budget) :
        /\ segments_list' = ShiftAll(r, i, i * ChunkLen) \o segments_list
        /\ chunk_outcome' = Append(chunk_outcome, [res |-> "ok", n |-> Len(r)])
        /\ engine_returns' = Append(engine_returns, [target |-> i, result |-> r])
    /\ i' = i + 1
    /\ pc' = "chunk_head"
    /\ stage_log' = Append(stage_log, "engine")
    /\ UNCHANGED <<ui, files, log_duration, paths_used, probe_log, env, file_path, exc,
                   current_step, duration, estimated_transcription_time, signals, timers,
                   num_chunks, temp_dir, chunk_files, extractions, structured_transcript,
                   saved>>

\* model.transcribe(chunk_file, ...); list(result); the timestamps are adjusted
TranscribeChunkOk ==
    /\ pc = "transcribe_chunk"
    /\ engine_calls' = Append(engine_calls, i)
    /\ \E r \in EngineResults(Budget) :
        /\ segments_list' = segments_list \o ShiftAll(r, i, i * ChunkLen)
        /\ chunk_outcome' = Append(chunk_outcome, [res |-> "ok", n |-> Len(r)])
        /\ engine_returns' = Append(engine_returns, [target |-> i, result |-> r])
    /\ i' = i + 1
    /\ pc' = "chunk_head"
    /\ stage_log' = Append(stage_log, "engine")
    /\ UNCHANGED <<ui, files, log_duration, paths_used, probe_log, env, file_path, exc,
                   current_step, duration, estimated_transcription_time, signals, timers,
                   num_chunks, temp_dir, chunk_files, extractions, structured_transcript,
                   saved>>

\* the engine raises for this chunk
TranscribeChunkFail ==
    /\ pc = "transcribe_chunk"
    /\ Faults(chunk_outcome) < faultBudget
    /\ engine_calls' = Append(engine_calls, i)
    /\ \E r \in EngineResults(Budget) : ChunkFailed("engine_failed", Len(r))
    /\ stage_log' = Append(stage_log, "engine")
    /\ UNCHANGED <<ui, files, log_duration, paths_used, probe_log, engine_returns, env,
                   file_path, current_step, duration, estimated_transcription_time, signals,
                   timers, num_chunks, temp_dir, chunk_files, extractions, segments_list,
                   structured_transcript, saved>>

\* a directory made with mkdtemp and never removed
ChunkLoopExitKeepsDir ==
    /\ pc = "chunk_exit"
    /\ pc' = "finally"
    /\ UNCHANGED <<ui, files, records, env, file_path, exc, current_step, duration,
                   estimated_transcription_time, signals, timers, chunks, engine_calls,
                   segments_list, structured_transcript, saved>>

\* leaving the with block: the TemporaryDirectory is removed with its files
ChunkLoopExit ==
    /\ pc = "chunk_exit"
    /\ temp_dir' = FALSE
    /\ chunk_files' = {}
    /\ pc' = "finally"
    /\ UNCHANGED <<ui, files, records, env, file_path, exc, current_step, duration,
                   estimated_transcription_time, signals, timers, num_chunks, i, chunk_outcome,
                   extractions, engine_calls, segments_list, structured_transcript, saved>>

\* whole-file mode: model.transcribe(self.file_path, ...); list(segments)
TranscribeWholeOk ==
    /\ pc = "whole_file"
    /\ engine_calls' = Append(engine_calls, -1)
    /\ paths_used' = paths_used \cup {<<"engine", file_path>>}
    /\ \E r \in EngineResults(Budget) :
        /\ segments_list' = [j \in 1..Len(r) |-> KeepSegment(r[j])]
        /\ engine_returns' = Append(engine_returns, [target |-> -1, result |-> r])
    /\ pc' = "finally"
    /\ stage_log' = Append(stage_log, "engine")
    /\ UNCHANGED <<ui, files, log_duration, probe_log, env, file_path, exc, current_step,
                   duration, estimated_transcription_time, signals, timers, chunks,
                   structured_transcript, saved>>

TranscribeWholeFail ==
    /\ pc = "whole_file"
    /\ engine_calls' = Append(engine_calls, -1)
    /\ paths_used' = paths_used \cup {<<"engine", file_path>>}
    /\ RaiseInner("engine")
    /\ stage_log' = Append(stage_log, "engine")
    /\ UNCHANGED <<ui, files, log_duration, probe_log, engine_returns, env, file_path,
                   current_step, duration, estimated_transcription_time, signals, timers,
                   chunks, segments_list, structured_transcript, saved>>

\* the inner except clause without its raise: the job goes on after a failure
StopTimersSwallows ==
    /\ pc = "finally"
    /\ keep_updating' = FALSE
    /\ pc' = "process"
    /\ UNCHANGED <<ui, files, records, env, file_path, exc, current_step, duration,
                   estimated_transcription_time, signals, transcription_timeout, max_wait_time,
                   wd_pc, timer_pc, past_deadline, chunks, engine_calls, segments_list,
                   structured_transcript, saved>>

\* a finally clause that leaves the flag up
StopTimersKeepsFlag ==
    /\ pc = "finally"
    /\ pc' = IF exc = "none" THEN "process" ELSE "handler"
    /\ UNCHANGED <<ui, files, records, env, file_path, exc, current_step, duration,
                   estimated_transcription_time, signals, timers, chunks, engine_calls,
                   segments_list, structured_transcript, saved>>

\* finally: self.keep_updating = False; a pending exception goes on to the
\* top-level handler
StopTimers ==
    /\ pc = "finally"
    /\ keep_updating' = FALSE
    /\ pc' = IF exc = "none" THEN "process" ELSE "handler"
    /\ UNCHANGED <<ui, files, records, env, file_path, exc, current_step, duration,
                   estimated_transcription_time, signals, transcription_timeout, max_wait_time,
                   wd_pc, timer_pc, past_deadline, chunks, engine_calls, segments_list,
                   structured_transcript, saved>>

\* update_transcription_progress(100); STEP 5: update_step(4); process_transcription
ProcessOk ==
    /\ pc = "process"
    /\ current_step' = 4
    /\ signals' = update_step(update_transcription_progress(signals, 100), 4)
    /\ structured_transcript' = process_transcription(segments_list)
    /\ pc' = "save"
    /\ stage_log' = Append(stage_log, "assemble")
    /\ UNCHANGED <<ui, files, log_duration, paths_used, probe_log, engine_returns, env,
                   file_path, exc, duration, estimated_transcription_time, timers, chunks,
                   engine_calls, segments_list, saved>>

\* any exception raised inside process_transcription
ProcessFail ==
    /\ pc = "process"
    /\ current_step' = 4
    /\ signals' = update_step(update_transcription_progress(signals, 100), 4)
    /\ Raise("assembly")
    /\ stage_log' = Append(stage_log, "assemble")
    /\ UNCHANGED <<ui, files, log_duration, paths_used, probe_log, engine_returns, env,
                   file_path, duration, estimated_transcription_time, timers, chunks,
                   engine_calls, segments_list, structured_transcript, saved>>

\* STEP 6: update_step(5); save_transcription writes the text file, then the
\* JSON file
SaveOk ==
    /\ pc = "save"
    /\ current_step' = 5
    /\ signals' = update_step(signals, 5)
    /\ paths_used' = paths_used \cup {<<"output", file_path>>}
    /\ txt_file' = {TxtContent(structured_transcript)}
    /\ json_file' = {json_dump(structured_transcript)}
    /\ saved' = TRUE
    /\ pc' = "complete"
    /\ stage_log' = Append(stage_log, "export")
    /\ UNCHANGED <<ui, loaded, log_duration, probe_log, engine_returns, env, file_path, exc,
                   duration, estimated_transcription_time, timers, chunks, engine_calls,
                   segments_list, structured_transcript>>

SaveFail ==
    /\ pc = "save"
    /\ current_step' = 5
    /\ signals' = update_step(signals, 5)
    /\ paths_used' = paths_used \cup {<<"output", file_path>>}
    \* the failure comes before the text file is written, or after it
    /\ \/ UNCHANGED txt_file
       \/ txt_file' = {TxtContent(structured_transcript)}
    /\ Raise("save")
    /\ stage_log' = Append(stage_log, "export")
    /\ UNCHANGED <<ui, json_file, loaded, log_duration, probe_log, engine_returns, env,
                   file_path, duration, estimated_transcription_time, timers, chunks,
                   engine_calls, segments_list, structured_transcript, saved>>

\* self.progress.emit(100); status; processing_ratio = total_time / duration;
\* transcript_ready; finished
Complete ==
    /\ pc = "complete"
    /\ LET s1 == Append(Append(signals, <<"progress", 100>>),
                        <<"status", "Transcription completed">>)
       IN  IF duration = 0
           THEN /\ signals' = s1
                /\ Raise("zero_division")
           ELSE /\ signals' = Append(Append(s1, <<"transcript_ready">>), <<"finished">>)
                /\ pc' = "done"
                /\ UNCHANGED exc
    /\ UNCHANGED <<ui, files, records, env, file_path, current_step, duration,
                   estimated_transcription_time, timers, chunks, engine_calls, segments_list,
                   structured_transcript, saved>>

\* except Exception as e: ... self.error.emit(error_msg)
HandleException ==
    /\ pc = "handler"
    /\ signals' = Append(signals, <<"error", exc>>)
    /\ pc' = "done"
    /\ UNCHANGED <<ui, files, records, env, file_path, exc, current_step, duration,
                   estimated_transcription_time, timers, chunks, engine_calls, segments_list,
                   structured_transcript, saved>>

(***************************************************************************)
(* The watchdog thread and the ticker thread                               *)
(***************************************************************************)
notTimers == <<env, file_path, pc, exc, current_step, duration, estimated_transcription_time,
               signals, chunks, engine_calls, segments_list, structured_transcript, saved,
               files, records, ui>>

\* the clock reaches transcription_start_time + max_wait_time; the watchdog
\* reads the clock only in its loop condition, and only while the flag is up
\* does the reading decide anything
TimePasses ==
    /\ wd_pc = "loop"
    /\ keep_updating
    /\ ~past_deadline
    /\ past_deadline' = TRUE
    /\ UNCHANGED <<keep_updating, transcription_timeout, max_wait_time, wd_pc, timer_pc>>
    /\ UNCHANGED notTimers

\* while time.time() - start < max_wait_time and self.keep_updating: sleep(10)
\* The loop is left when its condition is read false.
WatchdogLeaveLoop ==
    /\ wd_pc = "loop"
    /\ past_deadline \/ ~keep_updating
    /\ wd_pc' = "check"
    /\ UNCHANGED <<keep_updating, transcription_timeout, max_wait_time, timer_pc, past_deadline>>
    /\ UNCHANGED notTimers

\* the alert raised without reading the flag again after the loop
WatchdogCheckUnconditional ==
    /\ wd_pc = "check"
    /\ transcription_timeout' = TRUE
    /\ keep_updating' = FALSE
    /\ wd_pc' = "done"
    /\ UNCHANGED <<max_wait_time, timer_pc, past_deadline>>
    /\ UNCHANGED notTimers

\* if self.keep_updating: transcription_timeout = True; keep_updating = False
WatchdogCheck ==
    /\ wd_pc = "check"
    /\ IF keep_updating
       THEN /\ transcription_timeout' = TRUE
            /\ keep_updating' = FALSE
       ELSE UNCHANGED <<transcription_timeout, keep_updating>>
    /\ wd_pc' = "done"
    /\ UNCHANGED <<max_wait_time, timer_pc, past_deadline>>
    /\ UNCHANGED notTimers

\* update_timer: while self.keep_updating: ...; the thread ends when it reads
\* the flag false
TickerStop ==
    /\ timer_pc = "run"
    /\ ~keep_updating
    /\ timer_pc' = "done"
    /\ UNCHANGED <<keep_updating, transcription_timeout, max_wait_time, wd_pc, past_deadline>>
    /\ UNCHANGED notTimers

Next ==
    \/ CheckFormat
    \/ ConvertOk
    \/ ConvertFail
    \/ AnalyzeDuration
    \/ LoadModelOk
    \/ LoadModelFail
    \/ StartTranscription
    \/ LoadSmallModelOk
    \/ LoadSmallModelFail
    \/ ChooseMode
    \/ ChunkBegin
    \/ ExtractOk
    \/ ExtractFail
    \/ TranscribeChunkOk
    \/ TranscribeChunkFail
    \/ ChunkLoopExit
    \/ TranscribeWholeOk
    \/ TranscribeWholeFail
    \/ StopTimers
    \/ ProcessOk
    \/ ProcessFail
    \/ SaveOk
    \/ SaveFail
    \/ Complete
    \/ HandleException
    \/ TimePasses
    \/ WatchdogLeaveLoop
    \/ WatchdogCheck
    \/ TickerStop

(***************************************************************************)
(* WhisperApp.load_transcription (src/ui.py): the JSON file is parsed and  *)
(* its "segments" handed to display_transcript                             *)
(***************************************************************************)
LoadTranscription ==
    /\ json_file # {}
    /\ loaded = {}
    /\ loaded' = {GetSegments(json_load(content)) : content \in json_file}
    /\ UNCHANGED <<ui, txt_file, json_file, records, env, file_path, pc, exc, current_step,
                   duration, estimated_transcription_time, signals, timers, chunks,
                   engine_calls, segments_list, structured_transcript, saved>>

(***************************************************************************)
(* The window (src/ui.py): file selection, the start button, and the slots *)
(* connected to the worker's signals.  The slots run in the window's       *)
(* thread, one queued signal after the other.                              *)
(***************************************************************************)
worker == <<file_path, pc, exc, current_step, duration, estimated_transcription_time,
            signals, timers, chunks, engine_calls, segments_list, structured_transcript,
            saved, records>>

\* WhisperWorker(self.selected_file, language_code) followed by start()
NewWorker(path) ==
    /\ file_path' = path
    /\ pc' = "check_format"
    /\ exc' = "none"
    /\ current_step' = 0
    /\ duration' = 0
    /\ estimated_transcription_time' = 0
    /\ signals' = <<>>
    /\ keep_updating' = FALSE
    /\ transcription_timeout' = FALSE
    /\ max_wait_time' = 0
    /\ wd_pc' = "idle"
    /\ timer_pc' = "idle"
    /\ past_deadline' = FALSE
    /\ num_chunks' = 0
    /\ i' = 0
    /\ chunk_outcome' = <<>>
    /\ temp_dir' = FALSE
    /\ chunk_files' = {}
    /\ extractions' = <<>>
    /\ engine_calls' = <<>>
    /\ segments_list' = <<>>
    /\ structured_transcript' = <<>>
    /\ saved' = FALSE
    /\ log_duration' = <<>>
    /\ paths_used' = {}
    /\ probe_log' = <<>>
    /\ engine_returns' = <<>>
    /\ stage_log' = <<>>

\* a worker has been started and has not emitted finished or error
WorkerRunning == pc \notin {"no_worker", "done"}

\* the worker's last signal is error and handle_error has run for it
ErrorHandled ==
    /\ signals # <<>>
    /\ signals[Len(signals)][1] = "error"
    /\ ui_seen = Len(signals)

\* select_file, the dialog accepted with one of the two files
SelectFile ==
    /\ \E f \in {"a.m4a", "b.wav"} : selected_file' = f
    /\ transcribe_button' = TRUE
    /\ UNCHANGED <<open_button, progress_bar, jobs, orphans, retries, ui_seen, env, files, worker>>

\* the existing worker object started again instead of a new one
StartTranscriptionUIReusesWorker ==
    /\ transcribe_button
    /\ selected_file # ""
    /\ jobs < MaxJobs
    /\ transcribe_button' = FALSE
    /\ progress_bar' = 0
    /\ jobs' = jobs + 1
    /\ orphans' = orphans + (IF WorkerRunning THEN 1 ELSE 0)
    /\ retries' = retries + (IF ErrorHandled THEN 1 ELSE 0)
    /\ IF jobs = 0
       THEN /\ NewWorker(selected_file)
            /\ ui_seen' = 0
       ELSE /\ pc' = "check_format"
            /\ UNCHANGED <<file_path, exc, current_step, duration, estimated_transcription_time,
                           signals, timers, chunks, engine_calls, segments_list,
                           structured_transcript, saved, records, ui_seen>>
    /\ UNCHANGED <<open_button, selected_file, env, files>>

\* start_transcription: a click on the enabled button.  A worker that
\* self.worker still referred to is left to itself; its signals are not
\* followed any further.
StartTranscriptionUI ==
    /\ transcribe_button
    /\ selected_file # ""
    /\ jobs < MaxJobs
    /\ transcribe_button' = FALSE
    /\ progress_bar' = 0
    /\ jobs' = jobs + 1
    /\ orphans' = orphans + (IF WorkerRunning THEN 1 ELSE 0)
    /\ retries' = retries + (IF ErrorHandled THEN 1 ELSE 0)
    /\ NewWorker(selected_file)
    /\ ui_seen' = 0
    /\ UNCHANGED <<open_button, selected_file, env, files>>

\* the slot of the next queued signal: update_progress, transcription_done,
\* handle_error; the other slots change labels and the transcript view only
UiDeliver ==
    /\ ui_seen < Len(signals)
    /\ ui_seen' = ui_seen + 1
    /\ LET e == signals[ui_seen + 1] IN
        /\ progress_bar' = IF e[1] = "progress" THEN e[2] ELSE progress_bar
        /\ open_button' = IF e[1] = "finished" THEN TRUE ELSE open_button
        /\ transcribe_button' = IF e[1] = "error" THEN TRUE ELSE transcribe_button
    /\ UNCHANGED <<selected_file, jobs, orphans, retries, env, files, worker>>

\* the recording every job of a window session works on: half a chunk long
UiRecording == ChunkLen \div 2

\* the window as constructed: nothing selected, no worker
InitUI ==
    /\ recDuration = UiRecording
    /\ fileSizeMB \in FileSizesMB
    /\ segBudget = 0
    /\ faultBudget = 1
    /\ speed_multiplier = CpuMultiplier
    /\ transcribe_button = FALSE
    /\ open_button = FALSE
    /\ selected_file = ""
    /\ progress_bar = 0
    /\ jobs = 0
    /\ orphans = 0
    /\ retries = 0
    /\ ui_seen = 0
    /\ file_path = ""
    /\ pc = "no_worker"
    /\ exc = "none"
    /\ current_step = 0
    /\ duration = 0
    /\ estimated_transcription_time = 0
    /\ signals = <<>>
    /\ keep_updating = FALSE
    /\ transcription_timeout = FALSE
    /\ max_wait_time = 0
    /\ wd_pc = "idle"
    /\ timer_pc = "idle"
    /\ past_deadline = FALSE
    /\ num_chunks = 0
    /\ i = 0
    /\ chunk_outcome = <<>>
    /\ temp_dir = FALSE
    /\ chunk_files = {}
    /\ extractions = <<>>
    /\ engine_calls = <<>>
    /\ segments_list = <<>>
    /\ structured_transcript = <<>>
    /\ saved = FALSE
    /\ txt_file = {}
    /\ json_file = {}
    /\ loaded = {}
    /\ log_duration = <<>>
    /\ paths_used = {}
    /\ probe_log = <<>>
    /\ engine_returns = <<>>
    /\ stage_log = <<>>

\* a step of the worker or of its timers, taken while at most MaxPending of
\* its signals wait in the window's event queue
WorkerStep ==
    /\ Len(signals) - ui_seen <= MaxPending
    /\ Next

NextUI ==
    \/ SelectFile
    \/ StartTranscriptionUI
    \/ UiDeliver
    \/ WorkerStep

SpecUI == InitUI /\ [][NextUI]_vars

Spec == Init /\ [][Next]_vars

SpecLong == InitLong /\ [][Next]_vars

\* The ticker and the watchdog are threads of their own (threading.Thread,
\* daemon): each is scheduled again and again, and between two sleeps reads
\* the flag it polls.
TimerFairness ==
    /\ WF_vars(WatchdogLeaveLoop)
    /\ WF_vars(WatchdogCheck)
    /\ WF_vars(TickerStop)

\* short recordings without speech, at most one chunk failing
InitFair ==
    /\ InitJob
    /\ recDuration \in ShortDurations
    /\ segBudget = 0
    /\ faultBudget = 1

SpecFair == InitFair /\ [][Next]_vars /\ TimerFairness

(***************************************************************************)
(* The pure functions on their own: format_time on durations up to and     *)
(* beyond an hour, and process_transcription, save_transcription and the   *)
(* loader on transcripts that no bounded job of Spec produces (starts      *)
(* beyond an hour, every text of up to MaxTextLen characters, segments out *)
(* of order).                                                              *)
(***************************************************************************)
PureTimes == {0, 59, 60, 3599, 3600, 3725, 6000}
Texts == UNION {[1..n -> Chars] : n \in 0..MaxTextLen}
\* one segment with any text at any of the times
RichSegments == {[start |-> s, end |-> s + 1, text |-> x] : s \in PureTimes, x \in Texts}
\* segments told apart by their start, one of them with whitespace for text
PlainSegments ==
    {[start |-> 0, end |-> 1, text |-> SpokenText],
     [start |-> 5, end |-> 6, text |-> <<"space">>],
     [start |-> ChunkLen, end |-> ChunkLen + 1, text |-> SpokenText]}
PureTranscripts ==
    UNION {[1..n -> PlainSegments] : n \in 0..MaxSegs} \cup {<<s>> : s \in RichSegments}

InitPure ==
    /\ fileSizeMB \in FileSizesMB
    /\ speed_multiplier = CpuMultiplier
    /\ segBudget = 0
    /\ faultBudget = 0
    /\ file_path = "b.wav"
    /\ UiAfterStart
    /\ \/ /\ pc = "analyze"
          /\ recDuration \in PureTimes
          /\ segments_list = <<>>
       \/ /\ pc = "process"
          /\ recDuration = 0
          /\ segments_list \in PureTranscripts
    /\ exc = "none"
    /\ current_step = 0
    /\ duration = 0
    /\ estimated_transcription_time = 0
    /\ signals = <<>>
    /\ keep_updating = FALSE
    /\ transcription_timeout = FALSE
    /\ max_wait_time = 0
    /\ wd_pc = "idle"
    /\ timer_pc = "idle"
    /\ past_deadline = FALSE
    /\ num_chunks = 0
    /\ i = 0
    /\ chunk_outcome = <<>>
    /\ temp_dir = FALSE
    /\ chunk_files = {}
    /\ extractions = <<>>
    /\ engine_calls = <<>>
    /\ structured_transcript = <<>>
    /\ saved = FALSE
    /\ txt_file = {}
    /\ json_file = {}
    /\ loaded = {}
    /\ log_duration = <<>>
    /\ paths_used = {}
    /\ probe_log = <<>>
    /\ engine_returns = <<>>
    /\ stage_log = <<>>

NextPure ==
    \/ AnalyzeDuration
    \/ ProcessOk
    \/ SaveOk
    \/ LoadTranscription

SpecPure == InitPure /\ [][NextPure]_vars

(***************************************************************************)
(* Vocabulary of the properties                                            *)
(***************************************************************************)
IsProgress(e) == e[1] = "progress"
IsStep(e) == e[1] = "step"
IsFinished(e) == e[1] = "finished"
IsError(e) == e[1] = "error"

\* the overall-progress values emitted so far, in order
ProgressValues ==
    LET ps == SelectSeq(signals, IsProgress) IN [k \in 1..Len(ps) |-> ps[k][2]]

\* the current_step values of the step notifications, in order
StepValues ==
    LET ss == SelectSeq(signals, IsStep) IN [k \in 1..Len(ss) |-> ss[k][2]]

Finished == \E k \in 1..Len(signals) : IsFinished(signals[k])
Failed == \E k \in 1..Len(signals) : IsError(signals[k])
TerminalCount == Len(SelectSeq(signals, IsFinished)) + Len(SelectSeq(signals, IsError))

NonDecreasing(v) == \A a, b \in 1..Len(v) : a < b => v[a] <= v[b]
NoDuplicates(v) == \A a, b \in 1..Len(v) : a < b => v[a] # v[b]
SortedByStart(segs) == \A a, b \in 1..Len(segs) : a < b => segs[a].start <= segs[b].start

\* the job is in chunk mode
ChunkMode == num_chunks > 0

\* chunks of ChunkLen seconds that start inside a recording of d seconds
ExpectedChunks(d) == IF d % ChunkLen = 0 THEN d \div ChunkLen ELSE (d \div ChunkLen) + 1

\* progress values emitted before the transcription step: 0 (twice for an
\* .m4a input), 16, 33
PreProgress == IF file_path = "a.wav" THEN 4 ELSE 3

\* the mode decision of run() has been taken
EarlyPcs == {"check_format", "convert", "analyze", "load_model", "prepare",
             "load_small_model", "choose_mode"}
EarlyExc == {"conversion", "model_load", "small_model_load"}
ModeChosen == pc \notin EarlyPcs /\ exc \notin EarlyExc

ExtractFailed == \E k \in 1..Len(chunk_outcome) : chunk_outcome[k].res = "extract_failed"
\* segments of a run on the same recording in which no chunk fails
FullCount == SumN(chunk_outcome)
\* segments of the chunks that failed
LostCount == SumN(SelectSeq(chunk_outcome, IsFault))

(***************************************************************************)
(* C1: the overall-progress values of a job are non-decreasing, and a job  *)
(* that ends with the success notification emitted 100 last.               *)
(***************************************************************************)
C1_ProgressMonotonicTo100 ==
    /\ NonDecreasing(ProgressValues)
    /\ Finished => ProgressValues[Len(ProgressValues)] = 100

(***************************************************************************)
(* C2: a recording longer than 60 s is processed in floor(d/60) + 1        *)
(* chunks, the last iteration being skipped without extraction, engine     *)
(* call or progress emit when it starts at or after d, so that a multiple  *)
(* of 60 gives d/60 chunks.                                                *)
(***************************************************************************)
C2_ChunkCount ==
    pc = "chunk_exit" =>
        /\ duration > 60
        /\ num_chunks = (duration \div 60) + 1
        \* the loop ended by the break (i < num_chunks) or by exhausting the range
        /\ i < num_chunks <=> (num_chunks - 1) * 60 >= duration
        /\ Len(chunk_outcome) = IF i < num_chunks THEN num_chunks - 1 ELSE num_chunks
        /\ (duration % 60 = 0) => Len(chunk_outcome) = duration \div 60
        /\ (duration % 60 # 0) => Len(chunk_outcome) = (duration \div 60) + 1
        /\ extractions = [k \in 1..Len(chunk_outcome) |-> k - 1]
        /\ Len(engine_calls) <= Len(chunk_outcome)
        /\ Len(ProgressValues) = PreProgress + Len(chunk_outcome)

C2_Witness ==
    /\ pc = "chunk_exit"
    /\ duration = ChunkLen * LongMinutes
    /\ num_chunks = LongMinutes + 1
    /\ Len(chunk_outcome) = LongMinutes
    /\ i = LongMinutes

C4_Original ==
    (Finished /\ ExtractFailed) =>
        /\ OkChunks(chunk_outcome) # <<>> => segments_list # <<>>
        /\ Len(segments_list) < FullCount

(***************************************************************************)
(* C4, amended: an extraction failure does not end the job (only a failure *)
(* of assembly or saving does); the transcript holds the segments of the   *)
(* successful chunks, so it is non-empty exactly when one of them returned *)
(* a segment, and it is shorter than the failure-free run's exactly when   *)
(* the failed chunks held a segment.                                       *)
(***************************************************************************)
C4_Amended ==
    /\ (ExtractFailed /\ pc = "done") => (Finished \/ exc \in {"assembly", "save"})
    /\ (ExtractFailed /\ Finished) =>
        /\ Len(segments_list) = SumN(OkChunks(chunk_outcome))
        /\ Len(segments_list) = FullCount - LostCount
        /\ Len(segments_list) < FullCount <=> LostCount > 0
        /\ segments_list # <<>> <=>
             \E k \in 1..Len(chunk_outcome) : IsOk(chunk_outcome[k]) /\ chunk_outcome[k].n > 0

C4_Witness ==
    /\ Finished
    /\ ExtractFailed
    /\ segments_list # <<>>
    /\ Len(segments_list) < FullCount

(***************************************************************************)
(* C5: a failure of extraction or of the engine for one chunk stays inside *)
(* the chunk loop: it never becomes the exception of the top-level         *)
(* handler, the loop goes on with the next chunk up to the last one, and a *)
(* job whose chunks all fail succeeds with an empty transcript.            *)
(***************************************************************************)
C5_ChunkFailuresContained ==
    /\ exc \notin {"extract_failed", "engine_failed"}
    /\ Failed => exc \in EarlyExc \cup {"engine", "assembly", "save", "zero_division"}
    /\ pc \in {"chunk_head", "extract", "transcribe_chunk"} =>
        /\ Len(chunk_outcome) = i
        /\ i <= ExpectedChunks(duration)
    /\ (pc = "chunk_head" /\ i < ExpectedChunks(duration)) => ENABLED ChunkBegin
    /\ (ChunkMode /\ pc \in {"chunk_exit", "finally", "process", "save", "complete"}) =>
        Len(chunk_outcome) = ExpectedChunks(duration)
    /\ (Finished /\ ChunkMode /\ OkChunks(chunk_outcome) = <<>>) =>
        /\ segments_list = <<>>
        /\ structured_transcript = <<>>

C5_Witness ==
    /\ Finished
    /\ ChunkMode
    /\ Len(chunk_outcome) = 2
    /\ chunk_outcome[1].res = "extract_failed"
    /\ chunk_outcome[2].res = "engine_failed"
    /\ structured_transcript = <<>>

(***************************************************************************)
(* C6: a job emits one terminal notification, finished or error, never     *)
(* both; a failure outside the chunk loop ends the job with the error      *)
(* notification, and no stage is run again.                                *)
(***************************************************************************)
C6_OneTerminal ==
    /\ TerminalCount = IF pc = "done" THEN 1 ELSE 0
    /\ (pc = "done" /\ exc = "none") => signals[Len(signals)] = <<"finished">>
    /\ (pc = "done" /\ exc # "none") => signals[Len(signals)] = <<"error", exc>>
    /\ exc # "none" => pc \in {"finally", "handler", "done"}
    /\ exc \in EarlyExc \cup {"engine"} =>
        /\ segments_list = <<>>
        /\ Len(engine_calls) <= 1
    /\ exc \in EarlyExc \cup {"engine", "assembly"} => structured_transcript = <<>>
    /\ exc \in EarlyExc \cup {"engine", "assembly", "save"} => ~saved
    /\ NoDuplicates(engine_calls)
    /\ NoDuplicates(extractions)
    /\ NonDecreasing(StepValues)

C6_Witness ==
    /\ pc = "done"
    /\ exc = "engine"
    /\ signals[Len(signals)] = <<"error", "engine">>
    /\ TerminalCount = 1

(***************************************************************************)
(* C7: once the watchdog has set the timeout flag, the job does not end    *)
(* with the success notification.                                          *)
(***************************************************************************)
C7_TimeoutFailsJob == transcription_timeout => ~Finished

(***************************************************************************)
(* C8: the watchdog's timeout is max(3 * (d * m + 15), 1200) =             *)
(* max(d * m * 3 + 45, 1200) seconds for the duration d of the analysis    *)
(* and the multiplier m; never below 1200, and 1200 for d = 60, m = 0.9.   *)
(* (In tenths of a second.)                                                *)
(***************************************************************************)
C8_WatchdogTimeout ==
    /\ pc = "load_small_model" =>
        /\ max_wait_time = Max(3 * (duration * speed_multiplier + 150), 12000)
        /\ max_wait_time = Max(duration * speed_multiplier * 3 + 450, 12000)
        /\ (duration = 60 /\ speed_multiplier = 9) => max_wait_time = 12000
    /\ wd_pc # "idle" => max_wait_time >= 12000

C8_Witness ==
    /\ pc = "load_small_model"
    /\ speed_multiplier = 9
    /\ duration = ChunkLen * LongMinutes
    /\ max_wait_time = duration * 27 + 450
    /\ max_wait_time > 12000

(***************************************************************************)
(* C9, as stated: the transcript of a successful run is non-decreasing in  *)
(* start time, the engine returning each chunk's segments in               *)
(* non-decreasing start order.                                             *)
(***************************************************************************)
C9_Original == Finished => SortedByStart(structured_transcript)

(***************************************************************************)
(* C9, amended: the same, for an engine that also reports no start beyond  *)
(* the length of the chunk it was given (60 s).                            *)
(***************************************************************************)
C9_Amended ==
    (Finished /\ \A k \in 1..Len(segments_list) : segments_list[k].rstart <= ChunkLen) =>
        /\ SortedByStart(structured_transcript)
        /\ SortedByStart(segments_list)

C9_Witness ==
    /\ Finished
    /\ Len(structured_transcript) = 2
    /\ segments_list[1].chunk = 0
    /\ segments_list[1].rstart = ChunkLen
    /\ segments_list[2].chunk = 1
    /\ segments_list[2].rstart = 0
    /\ structured_transcript[1].start = structured_transcript[2].start

(***************************************************************************)
(* C10: a segment of chunk i enters the transcript with start and end      *)
(* shifted by i * 60, once: both lie in [i * 60, (i + 1) * 60 + Eps) for   *)
(* engine times in [0, 60 + Eps).                                          *)
(***************************************************************************)
C10_ShiftedOnce ==
    /\ \A k \in 1..Len(segments_list) :
        LET seg == segments_list[k] IN
        seg.chunk >= 0 =>
            /\ seg.start = seg.rstart + seg.chunk * 60
            /\ seg.end = seg.rend + seg.chunk * 60
            /\ seg.start >= seg.chunk * 60 /\ seg.start < (seg.chunk + 1) * 60 + Eps
            /\ seg.end >= seg.chunk * 60 /\ seg.end < (seg.chunk + 1) * 60 + Eps
            /\ chunk_outcome[seg.chunk + 1].res = "ok"
    /\ \A k \in 1..Len(structured_transcript) :
        /\ structured_transcript[k].start = segments_list[k].start
        /\ structured_transcript[k].end = segments_list[k].end

C10_Witness ==
    /\ Finished
    /\ Len(structured_transcript) = 1
    /\ segments_list[1].chunk = 1
    /\ segments_list[1].rend = ChunkLen + Eps - 1
    /\ structured_transcript[1].end = 2 * ChunkLen + Eps - 1

(***************************************************************************)
(* C11: the scratch directory and the chunk artifacts exist only inside    *)
(* the chunk loop of a job in chunk mode; once the loop is left, in        *)
(* particular when the terminal notification is emitted, no directory and  *)
(* no artifact remains.                                                    *)
(***************************************************************************)
LoopPcs == {"chunk_head", "extract", "transcribe_chunk", "chunk_exit"}

C11_ScratchRemoved ==
    /\ temp_dir <=> pc \in LoopPcs
    /\ temp_dir => ChunkMode
    /\ ~temp_dir => chunk_files = {}
    /\ TerminalCount > 0 => (~temp_dir /\ chunk_files = {})

C11_Witness ==
    /\ Finished
    /\ ChunkMode
    /\ Len(extractions) = 2
    /\ Len(engine_calls) = 2
    /\ ~temp_dir
    /\ chunk_files = {}

(***************************************************************************)
(* C12, as stated: when the extraction or the transcription of a chunk     *)
(* begins, no artifact of an earlier chunk exists.                         *)
(***************************************************************************)
C12_Original ==
    pc \in {"extract", "transcribe_chunk"} => \A k \in chunk_files : k >= i

\* chunks whose artifact ffmpeg has written so far
Extracted ==
    {k \in 0..(Len(chunk_outcome) - 1) : chunk_outcome[k + 1].res # "extract_failed"}
    \cup (IF pc = "transcribe_chunk" THEN {i} ELSE {})

(***************************************************************************)
(* C12, amended: no chunk artifact outlives the chunk loop.  Inside the    *)
(* loop the artifact of every chunk extracted so far is still in the       *)
(* scratch directory, also while later chunks are extracted and            *)
(* transcribed; all of them go with the directory when the loop is left.   *)
(***************************************************************************)
C12_Amended ==
    /\ pc \in LoopPcs => chunk_files = Extracted
    /\ pc \notin LoopPcs => chunk_files = {}
    /\ chunk_files # {} => temp_dir

C12_Witness ==
    /\ pc = "transcribe_chunk"
    /\ i = 1
    /\ chunk_files = {0, 1}
    /\ engine_calls = <<0>>

(***************************************************************************)
(* C13: the chunks are processed one at a time, in increasing index order  *)
(* and without retry: chunk i is extracted, and transcribed, only after    *)
(* every earlier chunk has its outcome; no index is extracted twice or     *)
(* transcribed twice; the engine is called for a chunk only after its      *)
(* extraction succeeded.                                                   *)
(***************************************************************************)
Increasing(v) == \A a, b \in 1..Len(v) : a < b => v[a] < v[b]

C13_ChunksInOrder ==
    ChunkMode =>
        /\ Increasing(extractions)
        /\ Increasing(engine_calls)
        \* the outcomes recorded are those of chunks 0..i-1, and nothing of a
        \* later chunk has been touched
        /\ pc \in {"chunk_head", "extract"} =>
            /\ Len(chunk_outcome) = i
            /\ \A k \in 1..Len(extractions) : extractions[k] < i
            /\ \A k \in 1..Len(engine_calls) : engine_calls[k] < i
        /\ pc = "transcribe_chunk" =>
            /\ Len(chunk_outcome) = i
            /\ extractions[Len(extractions)] = i
            /\ i \in chunk_files
            /\ \A k \in 1..Len(engine_calls) : engine_calls[k] < i
        \* an engine call follows a successful extraction of the same chunk
        /\ \A k \in 1..Len(engine_calls) :
            /\ \E e \in 1..Len(extractions) : extractions[e] = engine_calls[k]
            /\ engine_calls[k] < Len(chunk_outcome) =>
                chunk_outcome[engine_calls[k] + 1].res # "extract_failed"
        /\ \A k \in 1..Len(chunk_outcome) :
            chunk_outcome[k].res = "extract_failed" =>
                \A e \in 1..Len(engine_calls) : engine_calls[e] # k - 1

C13_Witness ==
    /\ pc = "transcribe_chunk"
    /\ i = 1
    /\ extractions = <<0, 1>>
    /\ engine_calls = <<>>
    /\ chunk_outcome[1].res = "extract_failed"

(***************************************************************************)
(* C14: when the conversion of an .m4a input fails, the job ends with the  *)
(* error notification and nothing else was done: no model loaded, no       *)
(* timer started, no probe, extraction or engine call, no output file.     *)
(* When it succeeds, the probe, the extractions, the whole-file engine     *)
(* call and the naming of the output files all use the converted path.     *)
(***************************************************************************)
OriginalPaths == {"a.m4a"}

C14_ConversionOutcome ==
    /\ exc = "conversion" =>
        /\ pc \in {"handler", "done"}
        /\ pc = "done" => (TerminalCount = 1 /\ signals[Len(signals)] = <<"error", "conversion">>)
        /\ \A k \in 1..Len(StepValues) : StepValues[k] = 1
        /\ wd_pc = "idle" /\ timer_pc = "idle" /\ ~keep_updating
        /\ engine_calls = <<>> /\ extractions = <<>> /\ probe_log = <<>>
        /\ paths_used = {}
        /\ ~saved /\ txt_file = {} /\ json_file = {}
    /\ (pc \notin {"check_format", "convert"} /\ exc # "conversion") =>
        /\ file_path \notin OriginalPaths
        /\ \A u \in paths_used : u[2] = file_path
    /\ pc \in {"check_format", "convert"} => paths_used = {}

C14_Witness ==
    /\ Finished
    /\ file_path = "a.wav"
    /\ ChunkMode
    /\ paths_used = {<<"probe", "a.wav">>, <<"extract", "a.wav">>, <<"output", "a.wav">>}

(***************************************************************************)
(* C15: an engine failure in whole-file mode ends the job with the error   *)
(* notification, without assembly, saving or output file; an engine        *)
(* failure for a chunk is recorded for that chunk and the loop goes on.    *)
(***************************************************************************)
C15_WholeFileFailureFatal ==
    /\ exc = "engine" =>
        /\ ~ChunkMode
        /\ engine_calls = <<-1>>
        /\ pc \in {"finally", "handler", "done"}
        /\ pc = "done" => (TerminalCount = 1 /\ signals[Len(signals)] = <<"error", "engine">>)
        /\ \A k \in 1..Len(StepValues) : StepValues[k] <= 4
        /\ structured_transcript = <<>>
        /\ ~saved /\ txt_file = {} /\ json_file = {}
    /\ \A k \in 1..Len(chunk_outcome) :
        chunk_outcome[k].res = "engine_failed" =>
            /\ exc \notin {"engine", "engine_failed"}
            /\ pc \in LoopPcs => i >= k
            /\ (pc = "chunk_head" /\ i < ExpectedChunks(duration)) => ENABLED ChunkBegin

C15_Witness ==
    /\ pc = "done"
    /\ exc = "engine"
    /\ ~ChunkMode
    /\ Failed
    /\ ~saved

C17_RoundTrip ==
    /\ \A L \in loaded :
        /\ Len(L) = Len(structured_transcript)
        /\ \A k \in 1..Len(L) :
            /\ L[k].start = structured_transcript[k].start
            /\ L[k].end = structured_transcript[k].end
            /\ L[k].text = structured_transcript[k].text
    /\ (saved /\ loaded = {}) => ENABLED LoadTranscription
    /\ (loaded # {} /\ structured_transcript = <<>>) => loaded = {<<>>}

C17_Witness ==
    \E L \in loaded :
        /\ Len(L) = 1
        /\ L[1].start = 3725
        /\ L[1].text = <<"backslash", "n">>
        /\ structured_transcript[1].text = <<"backslash", "n">>

(***************************************************************************)
(* C18: the text file of a successful job is a function of the duration    *)
(* the job works with and of what the engine returned for each call: in    *)
(* chunk mode every chunk of the recording was tried, the engine returned  *)
(* for exactly the chunks without failure, in index order, and the file    *)
(* holds their segments, shifted, in that order; whatever the ticker and   *)
(* the watchdog did in between.  Two runs with the same inputs therefore   *)
(* write the same characters.                                              *)
(***************************************************************************)
RECURSIVE SegmentsOf(_)
\* the segments of the engine's results, in call order, on the recording's clock
SegmentsOf(returns) ==
    IF returns = <<>> THEN <<>>
    ELSE LET call == Head(returns)
         IN  (IF call.target = -1
              THEN [j \in 1..Len(call.result) |-> KeepSegment(call.result[j])]
              ELSE ShiftAll(call.result, call.target, call.target * ChunkLen))
             \o SegmentsOf(Tail(returns))

\* the chunks of the outcome log that did not fail, by index
OkIndices == {k \in 0..(Len(chunk_outcome) - 1) : IsOk(chunk_outcome[k + 1])}

C18_OutputDetermined ==
    Finished =>
        /\ txt_file = {TxtContent(process_transcription(SegmentsOf(engine_returns)))}
        /\ Increasing([k \in 1..Len(engine_returns) |-> engine_returns[k].target])
        /\ IF duration > 60
           THEN /\ Len(chunk_outcome) = ExpectedChunks(duration)
                /\ {engine_returns[k].target : k \in 1..Len(engine_returns)} = OkIndices
           ELSE /\ Len(engine_returns) = 1
                /\ engine_returns[1].target = -1

\* the same job ends with the watchdog having fired, and without
C18_Witness ==
    /\ Finished
    /\ transcription_timeout
    /\ wd_pc = "done"
    /\ timer_pc = "done"
    /\ Len(engine_returns) = 1
    /\ engine_returns[1].target = 1
    /\ Len(engine_returns[1].result) = 2
    /\ chunk_outcome[1].res = "engine_failed"

(***************************************************************************)
(* C19: process_transcription returns as many entries as it was given      *)
(* segments, the k-th entry with the start and the end of the k-th         *)
(* segment, for every sequence of segments, the empty one included.        *)
(***************************************************************************)
C19_AssemblerKeepsAll ==
    pc \in {"save", "complete"} =>
        /\ Len(structured_transcript) = Len(segments_list)
        /\ \A k \in 1..Len(segments_list) :
            /\ structured_transcript[k].start = segments_list[k].start
            /\ structured_transcript[k].end = segments_list[k].end

C19_Witness ==
    /\ pc = "save"
    /\ Len(segments_list) = 2
    /\ segments_list[1].start = ChunkLen
    /\ segments_list[2].start = 5
    /\ structured_transcript[2].start = 5
    /\ structured_transcript[2].text = <<>>

(***************************************************************************)
(* C20: a segment's stamp is "(" minutes ":" seconds ")" with minutes =    *)
(* floor(start / 60) and seconds = floor(start mod 60), each written with  *)
(* at least two digits, and has no hour field however large the start is   *)
(* (3725 gives 62:05); format_time writes MM:SS below 3600 seconds and     *)
(* HH:MM:SS from 3600 on.                                                  *)
(***************************************************************************)
IsColon(c) == c = ":"
Colons(s) == Len(SelectSeq(s, IsColon))
FirstColon(s) == CHOOSE k \in 1..Len(s) : s[k] = ":" /\ \A j \in 1..(k - 1) : s[j] # ":"
BeforeColon(s) == SubSeq(s, 1, FirstColon(s) - 1)
AfterColon(s) == SubSeq(s, FirstColon(s) + 1, Len(s))

C20_StampForm ==
    /\ \A k \in 1..Len(structured_transcript) :
        LET stamp == structured_transcript[k].timestamp_str
            start == structured_transcript[k].start
            inner == SubSeq(stamp, 2, Len(stamp) - 1)
        IN  /\ stamp[1] = "(" /\ stamp[Len(stamp)] = ")"
            /\ Colons(stamp) = 1
            /\ Len(BeforeColon(inner)) >= 2
            /\ Len(AfterColon(inner)) = 2
            /\ ParseNat(BeforeColon(inner)) = start \div 60
            /\ ParseNat(AfterColon(inner)) = start % 60
            /\ start = 3725 => stamp = <<"(", "6", "2", ":", "0", "5", ")">>
    /\ log_duration # <<>> =>
        LET seconds == probe_log[1].value
            shown == log_duration
        IN  IF seconds < 3600
            THEN /\ Colons(shown) = 1
                 /\ Len(BeforeColon(shown)) = 2 /\ Len(AfterColon(shown)) = 2
                 /\ ParseNat(BeforeColon(shown)) * 60 + ParseNat(AfterColon(shown)) = seconds
            ELSE /\ Colons(shown) = 2
                 /\ Len(BeforeColon(shown)) >= 2
                 /\ Len(BeforeColon(AfterColon(shown))) = 2
                 /\ Len(AfterColon(AfterColon(shown))) = 2
                 /\ ParseNat(BeforeColon(shown)) * 3600
                        + ParseNat(BeforeColon(AfterColon(shown))) * 60
                        + ParseNat(AfterColon(AfterColon(shown))) = seconds

C20_Witness ==
    /\ pc = "save"
    /\ Len(structured_transcript) = 1
    /\ structured_transcript[1].start = 3725
    /\ structured_transcript[1].timestamp_str = <<"(", "6", "2", ":", "0", "5", ")">>

(***************************************************************************)
(* C21: every overall-progress value emitted before the transcription      *)
(* step is entered is at most 30.                                          *)
(***************************************************************************)
\* positions of run() at which no progress of the transcription step has
\* been emitted yet
BeforeTranscriptionProgress ==
    {"check_format", "convert", "analyze", "load_model", "prepare", "load_small_model"}

C21_PreTranscriptionCap ==
    pc \in BeforeTranscriptionProgress =>
        \A k \in 1..Len(ProgressValues) : ProgressValues[k] <= 30

(***************************************************************************)
(* C22: every overall-progress value emitted during the transcription      *)
(* step lies in 30..80 and is 30 + floor(p / 2), with                      *)
(* p = floor(100 * (i + 1) / num_chunks) for chunk i and p = 100 when the  *)
(* step ends; the 80 comes before the notification of step 5.              *)
(***************************************************************************)
\* the progress values of the transcription step emitted so far
TranscriptionProgress ==
    IF Len(ProgressValues) <= PreProgress THEN <<>>
    ELSE SubSeq(ProgressValues, PreProgress + 1, Len(ProgressValues))

C22_TranscriptionProgress ==
    /\ pc \in LoopPcs =>
        \A k \in 1..Len(TranscriptionProgress) :
            /\ TranscriptionProgress[k] = 30 + (((100 * k) \div num_chunks) \div 2)
            /\ TranscriptionProgress[k] >= 30 /\ TranscriptionProgress[k] <= 80
    /\ pc = "save" =>
        /\ TranscriptionProgress[Len(TranscriptionProgress)] = 80
        /\ signals[Len(signals)] = <<"step", 5, 6>>
        /\ signals[Len(signals) - 1] = <<"progress", 80>>

\* the part of C22 that the code does satisfy
C22_InRange ==
    pc \in LoopPcs \cup {"whole_file", "finally", "process", "save"} =>
        \A k \in 1..Len(TranscriptionProgress) :
            TranscriptionProgress[k] >= 30 /\ TranscriptionProgress[k] <= 80

(***************************************************************************)
(* C23: when the worker has left the transcription step, normally or with  *)
(* an exception, the flag keep_updating is down; from then on the ticker   *)
(* and the watchdog, scheduled fairly, each read it and end; and after the *)
(* start of the step nothing raises the flag again.                        *)
(***************************************************************************)
LeftStep == pc \in {"process", "save", "complete", "handler", "done"} /\ timer_pc # "idle"

C23_TimersTerminate ==
    /\ [](LeftStep => ~keep_updating)
    /\ (LeftStep /\ timer_pc = "run") ~> (timer_pc = "done")
    /\ (LeftStep /\ wd_pc \in {"loop", "check"}) ~> (wd_pc = "done")
    /\ [][keep_updating' => (keep_updating \/ pc = "prepare")]_vars

C23_Witness ==
    /\ pc = "done"
    /\ exc = "engine"
    /\ ~keep_updating
    /\ ~transcription_timeout
    /\ timer_pc = "done"
    /\ wd_pc = "done"

(***************************************************************************)
(* C24: the ticker and the watchdog are not started before the             *)
(* transcription step is entered, and the ticker does not stop while the   *)
(* worker is still inside the step.                                        *)
(***************************************************************************)
BeforeStep == {"check_format", "convert", "analyze", "load_model", "prepare"}
InsideStep == {"load_small_model", "choose_mode", "whole_file", "finally"} \cup LoopPcs

C24_TimersDuringStepOnly ==
    /\ pc \in BeforeStep => (timer_pc = "idle" /\ wd_pc = "idle")
    /\ pc \in InsideStep => timer_pc = "run"

(***************************************************************************)
(* C26: the stages of a job come in the order normalization (for an .m4a   *)
(* input), duration estimation, extractions and engine calls, assembly,    *)
(* export, success notification; the step notifications carry             *)
(* total_steps = 6 and step numbers that never decrease, from 1 up to 6    *)
(* in a successful job.                                                    *)
(***************************************************************************)
Rank(stage) ==
    CASE stage = "normalize" -> 1
      [] stage = "estimate" -> 2
      [] stage \in {"extract", "engine"} -> 3
      [] stage = "assemble" -> 4
      [] stage = "export" -> 5

StageRanks == [k \in 1..Len(stage_log) |-> Rank(stage_log[k])]

\* v[k] <= v[k + 1] for every k, which is NonDecreasing(v)
Ascending(v) == \A k \in 1..(Len(v) - 1) : v[k] <= v[k + 1]

C26_StageOrder ==
    LET ranks == StageRanks
        steps == StepValues
    IN  /\ Ascending(ranks)
        /\ \A k \in 1..Len(ranks) : ranks[k] = 1 => k = 1
        /\ Len(SelectSeq(ranks, LAMBDA r : r = 4)) <= 1
        /\ Len(SelectSeq(ranks, LAMBDA r : r = 5)) <= 1
        /\ \A k \in 1..Len(signals) : IsStep(signals[k]) => signals[k][3] = 6
        /\ Ascending(steps)
        /\ \A k \in 1..Len(steps) : steps[k] >= 1 /\ steps[k] <= 6
        /\ Finished =>
            /\ Len(SelectSeq(ranks, LAMBDA r : r = 1)) = IF file_path = "a.wav" THEN 1 ELSE 0
            /\ Len(SelectSeq(ranks, LAMBDA r : r = 2)) >= 1
            /\ Len(SelectSeq(ranks, LAMBDA r : r = 3)) = Len(extractions) + Len(engine_calls)
            /\ stage_log[Len(stage_log) - 1] = "assemble"
            /\ stage_log[Len(stage_log)] = "export"
            /\ saved /\ txt_file # {} /\ json_file # {}
            /\ signals[Len(signals)] = <<"finished">>
            /\ {steps[k] : k \in 1..Len(steps)} = 1..6
            /\ steps[1] = 1 /\ steps[Len(steps)] = 6

C26_Witness ==
    /\ Finished
    /\ stage_log = <<"normalize", "estimate", "estimate", "extract", "engine", "extract",
                     "engine", "assemble", "export">>
    /\ StepValues = <<1, 1, 2, 3, 4, 5, 6>>

(***************************************************************************)
(* C27: the duration is computed once per job: get_audio_duration is not   *)
(* called a second time, and the value that decides the mode and the       *)
(* number of chunks is the value the estimated time and the watchdog's     *)
(* timeout were computed from.                                             *)
(***************************************************************************)
C27_DurationOnce ==
    /\ Len(probe_log) <= 1
    /\ ModeChosen =>
        /\ duration = probe_log[1].value
        /\ estimated_transcription_time = EstimatedTime(duration, speed_multiplier)

(***************************************************************************)
(* C28: in chunk mode the progress of chunk i is emitted once, and when    *)
(* the chunk is completed: the transcription-progress values emitted so    *)
(* far are as many as the chunks that have their outcome.                  *)
(***************************************************************************)
C28_ProgressAtCompletion ==
    pc \in LoopPcs => Len(TranscriptionProgress) = Len(chunk_outcome)

\* the part of C28 that the code does satisfy: one emit per chunk begun
C28_OncePerChunk ==
    pc \in LoopPcs => Len(TranscriptionProgress) = Len(extractions) + (IF pc = "extract" THEN 1 ELSE 0)

(***************************************************************************)
(* C30: a job that has written both output files and emitted progress 100  *)
(* and the status "Transcription completed" ends with transcript_ready and *)
(* finished, never with the error notification, whatever duration the      *)
(* estimator returned.                                                     *)
(***************************************************************************)
IsCompletedStatus(e) == e = <<"status", "Transcription completed">>

C30_SavedMeansSuccess ==
    (pc = "done" /\ saved /\ \E k \in 1..Len(signals) : IsCompletedStatus(signals[k])) =>
        /\ ~Failed
        /\ Len(signals) >= 2
        /\ signals[Len(signals) - 1] = <<"transcript_ready">>
        /\ signals[Len(signals)] = <<"finished">>

(***************************************************************************)
(* C25: once handle_error has run for a job's error notification the start *)
(* button is enabled and start_transcription can be used again; the job it *)
(* starts is a new worker for the selected file with no signal emitted, no *)
(* failure recorded, no result and idle timers, the progress bar is back   *)
(* at 0, its first step notification is that of step 0, and at its end its *)
(* signals hold one terminal notification, its own.                        *)
(***************************************************************************)
FreshWorker ==
    /\ file_path \in {"a.m4a", "b.wav"}
    /\ signals = <<>>
    /\ exc = "none"
    /\ current_step = 0
    /\ duration = 0
    /\ estimated_transcription_time = 0
    /\ ~keep_updating
    /\ ~transcription_timeout
    /\ wd_pc = "idle"
    /\ timer_pc = "idle"
    /\ engine_calls = <<>>
    /\ segments_list = <<>>
    /\ structured_transcript = <<>>
    /\ ~saved
    /\ stage_log = <<>>
    /\ probe_log = <<>>

C25_RetryStartsFresh ==
    /\ ErrorHandled =>
        /\ transcribe_button
        /\ jobs < MaxJobs => ENABLED StartTranscriptionUI
    /\ (retries >= 1 /\ pc = "check_format") =>
        /\ FreshWorker
        /\ progress_bar = 0
        /\ ui_seen = 0
    /\ (retries >= 1 /\ pc # "check_format") =>
        /\ signals[1] = <<"step", 1, TotalSteps>>
        /\ signals[2] = <<"progress", 0>>
    /\ (retries >= 1 /\ pc = "done") => TerminalCount = 1

\* a job started after a handled error has run to its end and the window
\* has handled its finished notification
C25_Witness ==
    /\ retries = 1
    /\ jobs = 2
    /\ orphans = 0
    /\ pc = "done"
    /\ signals[Len(signals)] = <<"finished">>
    /\ ui_seen = Len(signals)
    /\ open_button

(***************************************************************************)
(* C29: while a started worker has not emitted finished or error, the      *)
(* start button is disabled, and no worker is ever replaced before its     *)
(* terminal notification.                                                  *)
(***************************************************************************)
C29_OneWorkerAtATime ==
    /\ WorkerRunning => ~transcribe_button
    /\ orphans = 0

(***************************************************************************)
(* C31: transcription_timeout is raised only by the watchdog's check after *)
(* its loop, and only when the deadline passed while keep_updating was     *)
(* still up and the check reads it up; once the worker has cleared         *)
(* keep_updating before the deadline, transcription_timeout is false and   *)
(* stays false in every later step of the job.                             *)
(***************************************************************************)
StepEndedInTime == wd_pc # "idle" /\ ~keep_updating /\ ~past_deadline

C31_TimeoutOnlyByWatchdog ==
    [][/\ (transcription_timeout' /\ ~transcription_timeout) =>
            /\ wd_pc = "check" /\ wd_pc' = "done"
            /\ past_deadline
            /\ keep_updating /\ ~keep_updating'
            /\ UNCHANGED notTimers
       /\ StepEndedInTime => (~transcription_timeout /\ StepEndedInTime')
       /\ StepEndedInTime' => ~transcription_timeout']_vars

\* the step ended before the deadline, the watchdog left its loop on the
\* cleared flag and ended without the alert, and the job went on to its end
C31_Witness ==
    /\ pc = "done"
    /\ wd_pc = "done"
    /\ ~past_deadline
    /\ ~keep_updating
    /\ ~transcription_timeout

(***************************************************************************)
(* C32: in chunk mode the k-th extraction asks for the range that starts   *)
(* at 60 * (k - 1) and ends at 60 * k or at the duration, whichever comes   *)
(* first.  The first range starts at 0, each range starts where the one    *)
(* before it ends and starts strictly below the duration, and when the     *)
(* loop is left the last range ends at the duration: the ranges partition  *)
(* [0, duration).                                                          *)
(***************************************************************************)
\* start_chunk_time = i * chunk_duration, the value of "-ss"
RangeStart(c) == c * ChunkLen
\* "-t" chunk_duration, cut at the end of the recording
RangeEnd(c) == Min(RangeStart(c) + ChunkLen, duration)

LoopLeft == ChunkMode /\ pc \notin {"choose_mode", "chunk_head", "extract", "transcribe_chunk"}

C32_RangesPartition ==
    ChunkMode =>
        /\ \A k \in 1..Len(extractions) :
            /\ extractions[k] = k - 1
            /\ RangeStart(extractions[k]) < duration
            /\ RangeStart(extractions[k]) < RangeEnd(extractions[k])
            /\ k = 1 => RangeStart(extractions[k]) = 0
            /\ k > 1 => RangeStart(extractions[k]) = RangeEnd(extractions[k - 1])
        /\ LoopLeft =>
            /\ extractions # <<>>
            /\ RangeEnd(extractions[Len(extractions)]) = duration

\* a recording of a whole number of minutes: the loop was left by the break,
\* one chunk short of num_chunks
C32_Witness ==
    /\ pc = "chunk_exit"
    /\ duration = ChunkLen * LongMinutes
    /\ num_chunks = LongMinutes + 1
    /\ Len(extractions) = LongMinutes

====
